---- MODULE Spec2Model ----
(***************************************************************************)
(* Model of src/app.py: a Streamlit script that loads a labelled           *)
(* co-occurrence matrix from 'matrix.csv' through a process-wide cache,    *)
(* offers a slider for the minimum connection strength, reshapes the       *)
(* matrix into a node table and a link table, filters the links and hands  *)
(* them to a chord chart, and hands the raw matrix to a heatmap.           *)
(*                                                                         *)
(* The script runs top to bottom on every page load and on every slider    *)
(* change.  One script run is one action.                                  *)
(***************************************************************************)
EXTENDS Integers, Sequences, FiniteSets

\* ------------------------------------------------------------------ bounds

\* Largest number of row labels / column labels of an input file.
MaxN == 2
\* Largest number of times one process reads the file (caps the counter).
MaxReads == 2
\* Largest length of a free-standing edge sequence handed to the filter.
MaxEdges == 3

\* --------------------------------------------------------------- constants

\* slider(min_value=0, ...)
SliderMin == 0
\* slider(..., value=50, ...)
SliderDefault == 50
\* pandas' marker for a label that Series.map does not find in the dict.
NaN == -1

\* Labels an input file may use.
Categories == {"general", "racist", "sexist"}
\* Counts an input file may hold: one below and one above the slider default.
CellVals == {10, 60}

\* ------------------------------------------------------------------- state

VARIABLES
    cache,                    \* st.cache_data entry of load_data('matrix.csv'): <<>> or <<result>>
    file,                     \* the file content the stored answer was computed from
    reads,                    \* number of times this process ran pd.read_csv
    slider_state,             \* the session's widget value of the slider: <<>> or <<t>>
    view,                     \* how the last script run ended
    exception,                \* the exception that ended it, "" when none did
    data_matrix,              \* module variable data_matrix of the last run
    min_connection_strength,  \* module variable of the last run: <<>> or <<t>>
    nodes_df,                 \* module variable of the last run
    links,                    \* module variable of the last run
    links_filtered,           \* module variable of the last run
    heatmap,                  \* data handed to hv.HeatMap: <<>> or <<[x, y, z]>>
    messages,                 \* st.error / st.warning elements on the page
    edges_in, t1, t2,         \* inputs of a free-standing filter call
    out1, out2, fpc           \* its results and its position

lifecycle == <<cache, file, reads, slider_state, view, exception, data_matrix,
               min_connection_strength, nodes_df, links, links_filtered,
               heatmap, messages>>
filtering == <<edges_in, t1, t2, out1, out2, fpc>>
vars == <<cache, file, reads, slider_state, view, exception, data_matrix,
          min_connection_strength, nodes_df, links, links_filtered,
          heatmap, messages, edges_in, t1, t2, out1, out2, fpc>>

\* ----------------------------------------------------------------- helpers

Range(s) == {s[i] : i \in DOMAIN s}

Injective(s) == \A i, j \in DOMAIN s : s[i] = s[j] => i = j

RemoveAt(s, k) == [i \in 1..(Len(s) - 1) |-> IF i < k THEN s[i] ELSE s[i + 1]]

IndexOf(s, x) == CHOOSE i \in DOMAIN s : s[i] = x

SetMax(S) == CHOOSE m \in S : \A x \in S : x <= m

\* ------------------------------------------------------------- input files

\* Label sequences without repetition, of at most MaxN labels.
LabelSeqs == UNION {{s \in [1..n -> Categories] : Injective(s)} : n \in 0..MaxN}

NoFile == [kind |-> "unread", index |-> <<>>, columns |-> <<>>, values |-> <<>>, numeric |-> TRUE]

\* Counts of a table with one count on the diagonal, one above it and one
\* below it.
Fill(r, c, d, u, l) ==
    [i \in 1..Len(r) |-> [j \in 1..Len(c) |-> IF i = j THEN d ELSE IF i < j THEN u ELSE l]]

\* Tables of counts: a header (columns), a first column (index) and one
\* count per row and column.
NumericTables ==
    {[kind |-> "table", index |-> r, columns |-> c, values |-> Fill(r, c, d, u, l),
      numeric |-> TRUE] :
        r \in LabelSeqs, c \in LabelSeqs, d \in CellVals, u \in CellVals, l \in CellVals}

\* Tables whose cells are text: pandas reads them with dtype object.  The
\* entries of values are placeholders, nothing reads them.
TextTables ==
    {[kind |-> "table", index |-> r, columns |-> c,
      values |-> [i \in 1..Len(r) |-> [j \in 1..Len(c) |-> 0]], numeric |-> FALSE] :
        r \in LabelSeqs \ {<<>>}, c \in LabelSeqs \ {<<>>}}

\* What may lie at 'matrix.csv': nothing, a zero-byte file, or a table.
Files ==
    {[NoFile EXCEPT !.kind = "missing"], [NoFile EXCEPT !.kind = "empty"]}
    \cup NumericTables \cup TextTables

\* ------------------------------------------------------------- load_data

NoResult == [tag |-> "unbound", exc |-> "", index |-> <<>>, columns |-> <<>>, values |-> <<>>, numeric |-> TRUE]

Raise(e) == [NoResult EXCEPT !.tag = "raise", !.exc = e]

DataFrame(f) == [NoResult EXCEPT !.tag = "df", !.index = f.index, !.columns = f.columns,
                                 !.values = f.values, !.numeric = f.numeric]

\* df.drop('general', axis=1)
drop_column(df) ==
    LET k == IndexOf(df.columns, "general")
    IN [df EXCEPT !.columns = RemoveAt(df.columns, k),
                  !.values = [i \in DOMAIN df.values |-> RemoveAt(df.values[i], k)]]

\* df.drop('general', axis=0): KeyError when no row carries the label
drop_row(df) ==
    IF "general" \notin Range(df.index) THEN Raise("KeyError")
    ELSE LET k == IndexOf(df.index, "general")
         IN [df EXCEPT !.index = RemoveAt(df.index, k), !.values = RemoveAt(df.values, k)]

remove_general(df) ==
    IF "general" \in Range(df.columns) THEN drop_row(drop_column(df)) ELSE df

\* The body of load_data: only FileNotFoundError is caught (and answered with
\* st.error and None); any other exception leaves the function.
load_data(f) ==
    IF f.kind = "missing" THEN [NoResult EXCEPT !.tag = "None"]
    ELSE IF f.kind = "empty" THEN Raise("EmptyDataError")
    ELSE remove_general(DataFrame(f))

\* ------------------------------------------------------------------ slider

Cells(df) == UNION {Range(df.values[i]) : i \in DOMAIN df.values}

\* int(data_matrix.values.max())
max_value(df) == SetMax(Cells(df))

\* st.sidebar.slider(min_value=0, max_value=int(data_matrix.values.max()), value=50):
\* the maximum of no cells raises, int() of the maximum of text cells raises; a default value outside
\* [min_value, max_value] raises; otherwise the session's value, or the
\* default when the session has none.
slider(df, sess) ==
    IF Cells(df) = {} THEN [raised |-> TRUE, exc |-> "ValueError", value |-> 0]
    ELSE IF ~df.numeric THEN [raised |-> TRUE, exc |-> "ValueError", value |-> 0]
    ELSE IF SliderDefault < SliderMin \/ SliderDefault > max_value(df)
         THEN [raised |-> TRUE, exc |-> "StreamlitAPIException", value |-> 0]
    ELSE [raised |-> FALSE, exc |-> "",
          value |-> IF Len(sess) = 0 THEN SliderDefault ELSE sess[1]]

\* --------------------------------------------------------------- reshaping

\* Variant: the ids count from 1 (the label position is not reset to 0).
toNodes_from1(df) == [k \in 1..Len(df.index) |-> [id |-> k, name |-> df.index[k]]]

\* nodes_df: one row per index label, id = position from 0
toNodes(df) == [k \in 1..Len(df.index) |-> [id |-> k - 1, name |-> df.index[k]]]

\* name_to_id = {name: i for i, name in enumerate(data_matrix.index)}
name_to_id(df) ==
    [name \in Range(df.index) |->
        SetMax({k \in DOMAIN df.index : df.index[k] = name}) - 1]

\* Series.map(name_to_id)
map_id(df, name) == IF name \in Range(df.index) THEN name_to_id(df)[name] ELSE NaN

\* Variant: the target id is the column's position, not the id of its name.
toEdges_positional(df) ==
    LET r == Len(df.index)
        c == Len(df.columns)
    IN [k \in 1..(r * c) |->
          LET i == ((k - 1) \div c) + 1
              j == ((k - 1) % c) + 1
          IN [source_name |-> df.index[i],
              target_name |-> df.columns[j],
              value |-> df.values[i][j],
              source |-> i - 1,
              target |-> j - 1]]

\* links: data_matrix.stack().reset_index() with the two id columns added
toEdges(df) ==
    LET r == Len(df.index)
        c == Len(df.columns)
    IN [k \in 1..(r * c) |->
          LET i == ((k - 1) \div c) + 1
              j == ((k - 1) % c) + 1
          IN [source_name |-> df.index[i],
              target_name |-> df.columns[j],
              value |-> df.values[i][j],
              source |-> map_id(df, df.index[i]),
              target |-> map_id(df, df.columns[j])]]

\* Variant: strictly greater, as the slider's help text words it.
filterEdges_strict(edges, threshold) ==
    LET keep(e) == e.source # e.target /\ e.value > threshold
    IN SelectSeq(edges, keep)

\* Variant: the comparison is turned around.
filterEdges_le(edges, threshold) ==
    LET keep(e) == e.source # e.target /\ e.value <= threshold
    IN SelectSeq(edges, keep)

\* Variant: the threshold of the run before still applies when it was higher.
filterEdges_sticky(edges, threshold) ==
    LET t == IF Len(min_connection_strength) > 0 /\ min_connection_strength[1] > threshold
             THEN min_connection_strength[1] ELSE threshold
        keep(e) == e.source # e.target /\ e.value >= t
    IN SelectSeq(edges, keep)

\* links[(links['source'] != links['target']) & (links['value'] >= min_connection_strength)]
filterEdges(edges, threshold) ==
    LET keep(e) == e.source # e.target /\ e.value >= threshold
    IN SelectSeq(edges, keep)

\* ------------------------------------------------------------- script runs

Blank ==
    /\ min_connection_strength' = <<>>
    /\ nodes_df' = <<>>
    /\ links' = <<>>
    /\ links_filtered' = <<>>
    /\ heatmap' = <<>>

\* The script from line 40 on, given what load_data('matrix.csv') answered.
Body(res, sess) ==
    IF res.tag = "raise" THEN
        /\ view' = "exception"
        /\ exception' = res.exc
        /\ data_matrix' = NoResult
        /\ slider_state' = <<>>
        /\ messages' = {}
        /\ Blank
    ELSE IF res.tag = "None" THEN
        /\ view' = "nochart"
        /\ exception' = ""
        /\ data_matrix' = res
        /\ slider_state' = <<>>
        /\ messages' = {"error", "warning"}
        /\ Blank
    ELSE
        LET s == slider(res, sess)
        IN IF s.raised THEN
               /\ view' = "exception"
               /\ exception' = s.exc
               /\ data_matrix' = res
               /\ slider_state' = <<>>
               /\ messages' = {}
               /\ Blank
           ELSE
               /\ view' = "chart"
               /\ exception' = ""
               /\ data_matrix' = res
               /\ slider_state' = <<s.value>>
               /\ messages' = {}
               /\ min_connection_strength' = <<s.value>>
               /\ nodes_df' = toNodes(res)
               /\ links' = toEdges(res)
               /\ links_filtered' = filterEdges(toEdges(res), s.value)
               /\ heatmap' = <<[x |-> res.columns, y |-> res.index, z |-> res.values]>>

\* One run of the script.  load_data goes through st.cache_data: a stored
\* answer is returned without running the function; otherwise the function
\* runs on the file as it is now, and its answer is stored unless it raised.
ScriptRun(sess) ==
    /\ Len(cache) > 0 \/ reads < MaxReads
    /\ \E f \in (IF Len(cache) > 0 THEN {file} ELSE Files) :
         LET hit == Len(cache) > 0
             res == IF hit THEN cache[1] ELSE load_data(f)
         IN /\ file' = IF res.tag = "raise" THEN file ELSE f
            /\ reads' = IF hit THEN reads ELSE reads + 1
            /\ cache' = IF hit \/ res.tag = "raise" THEN cache ELSE <<res>>
            /\ Body(res, sess)
    /\ UNCHANGED filtering

\* The page is opened, or re-run with the widget as it is.
Rerun == ScriptRun(slider_state)

\* Values the user may drag the slider to.
SliderPicks(df) == {t \in {0, 10, 11, 50, 60} : SliderMin <= t /\ t <= max_value(df)}

\* The user moves the slider: the widget value changes and the script re-runs.
SliderChange ==
    /\ view = "chart"
    /\ \E t \in SliderPicks(data_matrix) :
         /\ t # slider_state[1]
         /\ ScriptRun(<<t>>)

\* A new browser session: no widget value yet, same process and cache.
NewSession ==
    /\ Len(slider_state) > 0
    /\ ScriptRun(<<>>)

InitLifecycle ==
    /\ cache = <<>>
    /\ file = NoFile
    /\ reads = 0
    /\ slider_state = <<>>
    /\ view = "blank"
    /\ exception = ""
    /\ data_matrix = NoResult
    /\ min_connection_strength = <<>>
    /\ nodes_df = <<>>
    /\ links = <<>>
    /\ links_filtered = <<>>
    /\ heatmap = <<>>
    /\ messages = {}

InitFilterIdle ==
    /\ edges_in = <<>>
    /\ t1 = 0
    /\ t2 = 0
    /\ out1 = <<>>
    /\ out2 = <<>>
    /\ fpc = "idle"

\* The process is restarted: the cache and every session are gone.
Restart ==
    /\ reads > 0
    /\ cache' = <<>>
    /\ file' = NoFile
    /\ reads' = 0
    /\ slider_state' = <<>>
    /\ view' = "blank"
    /\ exception' = ""
    /\ data_matrix' = NoResult
    /\ messages' = {}
    /\ Blank
    /\ UNCHANGED filtering

Init == InitLifecycle /\ InitFilterIdle

Next == Rerun \/ SliderChange \/ NewSession \/ Restart

Spec == Init /\ [][Next]_vars

\* ------------------------------------------- the filter on its own inputs

NameOf(id) == IF id = 0 THEN "racist" ELSE "sexist"

EdgeUniverse ==
    {[source_name |-> NameOf(s), target_name |-> NameOf(t), value |-> v,
      source |-> s, target |-> t] : s \in 0..1, t \in 0..1, v \in CellVals}

EdgeSeqs == UNION {[1..n -> EdgeUniverse] : n \in 0..MaxEdges}

Thresholds == {0, 10, 60, 61}

InitFilter ==
    /\ InitLifecycle
    /\ edges_in \in EdgeSeqs
    /\ t1 \in Thresholds
    /\ t2 \in Thresholds
    /\ out1 = <<>>
    /\ out2 = <<>>
    /\ fpc = "input"

ApplyFilter ==
    /\ fpc = "input"
    /\ out1' = filterEdges(edges_in, t1)
    /\ out2' = filterEdges(edges_in, t2)
    /\ fpc' = "done"
    /\ UNCHANGED <<edges_in, t1, t2>>
    /\ UNCHANGED lifecycle

NextFilter == ApplyFilter

SpecFilter == InitFilter /\ [][NextFilter]_vars

\* --------------------------------------- the reshaping on its own inputs

\* Square matrices whose column labels are the row labels in some order,
\* with any counts.
Matrices ==
    UNION {UNION {
        {[NoResult EXCEPT !.tag = "df", !.index = r, !.columns = c, !.values = v] :
            v \in [1..Len(r) -> [1..Len(c) -> CellVals]]}
        : c \in {x \in LabelSeqs : Len(x) = Len(r) /\ Range(x) = Range(r)}}
        : r \in LabelSeqs}

InitReshape ==
    /\ cache = <<>>
    /\ file = NoFile
    /\ reads = 0
    /\ slider_state = <<>>
    /\ view = "blank"
    /\ exception = ""
    /\ data_matrix \in Matrices
    /\ min_connection_strength = <<>>
    /\ nodes_df = <<>>
    /\ links = <<>>
    /\ links_filtered = <<>>
    /\ heatmap = <<>>
    /\ messages = {}
    /\ InitFilterIdle

\* Lines 69 to 74 on a matrix.
Reshape ==
    /\ fpc = "idle"
    /\ nodes_df' = toNodes(data_matrix)
    /\ links' = toEdges(data_matrix)
    /\ fpc' = "done"
    /\ UNCHANGED <<cache, file, reads, slider_state, view, exception, data_matrix,
                   min_connection_strength, links_filtered, heatmap, messages,
                   edges_in, t1, t2, out1, out2>>

NextReshape == Reshape

SpecReshape == InitReshape /\ [][NextReshape]_vars

\* ------------------------------------------------------------ properties

\* Positions of the edges a threshold keeps: no self-edge, value at least t.
KeptIndices(edges, t) ==
    {i \in DOMAIN edges : edges[i].source # edges[i].target /\ edges[i].value >= t}

\* The p-th smallest element of a set of positions.
NthOf(K, p) == CHOOSE i \in K : Cardinality({j \in K : j <= i}) = p

\* out is edges restricted to the kept positions, in input order.
IsKeptSubsequence(out, edges, t) ==
    LET K == KeptIndices(edges, t)
    IN /\ Len(out) = Cardinality(K)
       /\ \A p \in 1..Len(out) : out[p] = edges[NthOf(K, p)]

\* A square, numeric, non-empty matrix whose column labels are its row labels.
ValidMatrix(df) ==
    /\ df.tag = "df"
    /\ df.numeric
    /\ Len(df.index) > 0
    /\ Len(df.index) = Len(df.columns)
    /\ Range(df.index) = Range(df.columns)

\* A file that is no labelled square matrix of counts.
Malformed(f) ==
    \/ f.kind = "empty"
    \/ /\ f.kind = "table"
       /\ \/ Len(f.index) # Len(f.columns)
          \/ Range(f.index) # Range(f.columns)
          \/ ~f.numeric

C8_FilterMonotonic ==
    (fpc = "done" /\ t1 <= t2) => Range(out2) \subseteq Range(out1)

\* Two different thresholds, the higher keeps something and the lower more.
C8_Witness ==
    /\ fpc = "done"
    /\ t1 < t2
    /\ Len(out2) > 0
    /\ Len(out1) > Len(out2)

\* C6: toNodes returns one Node per row, in row order, the k-th with id k
\* (from 0) and the k-th row label as name; the ids are the range 0..n-1
\* without repetition and id and name determine each other.
C6_NodesOnePerRow ==
    (fpc = "done" /\ ValidMatrix(data_matrix)) =>
        LET n == Len(data_matrix.index)
        IN /\ Len(nodes_df) = n
           /\ \A k \in 1..n : nodes_df[k].id = k - 1 /\ nodes_df[k].name = data_matrix.index[k]
           /\ {nodes_df[k].id : k \in DOMAIN nodes_df} = 0..(n - 1)
           /\ {nodes_df[k].name : k \in DOMAIN nodes_df} = Range(data_matrix.index)
           /\ \A a, b \in DOMAIN nodes_df :
                (nodes_df[a].id = nodes_df[b].id) <=> (nodes_df[a].name = nodes_df[b].name)
           /\ \A a, b \in DOMAIN nodes_df : nodes_df[a].id = nodes_df[b].id => a = b

\* The reshaping ran on a matrix of two categories.
C6_Witness ==
    /\ fpc = "done"
    /\ ValidMatrix(data_matrix)
    /\ Len(nodes_df) = 2

\* C7: toEdges returns n*n edges, exactly one per ordered pair of a row and a
\* column (the diagonal included), with the cell as value, the id of the
\* Node named like the row as source and the id of the Node named like the
\* column as target.
C7_EdgesAllPairs ==
    (fpc = "done" /\ ValidMatrix(data_matrix)) =>
        LET n == Len(data_matrix.index)
        IN /\ Len(links) = n * n
           /\ \A i, j \in 1..n :
                LET ks == {k \in DOMAIN links :
                             /\ links[k].source_name = data_matrix.index[i]
                             /\ links[k].target_name = data_matrix.columns[j]}
                IN /\ Cardinality(ks) = 1
                   /\ \A k \in ks :
                        /\ links[k].value = data_matrix.values[i][j]
                        /\ \E a \in DOMAIN nodes_df :
                             /\ nodes_df[a].name = data_matrix.index[i]
                             /\ nodes_df[a].id = links[k].source
                        /\ \E b \in DOMAIN nodes_df :
                             /\ nodes_df[b].name = data_matrix.columns[j]
                             /\ nodes_df[b].id = links[k].target

\* The reshaping ran on a matrix of two categories whose columns are in
\* another order than its rows and whose two off-diagonal cells differ.
C7_Witness ==
    /\ fpc = "done"
    /\ ValidMatrix(data_matrix)
    /\ Len(links) = 4
    /\ data_matrix.columns # data_matrix.index
    /\ data_matrix.values[1][2] # data_matrix.values[2][1]

\* What a chart run shows is what the stored matrix and the current
\* threshold give.
ChartFromStoredMatrix ==
    view = "chart" =>
        /\ Len(cache) = 1
        /\ data_matrix = cache[1]
        /\ Len(nodes_df) = Len(cache[1].index)
        /\ \A k \in DOMAIN nodes_df :
             nodes_df[k].id = k - 1 /\ nodes_df[k].name = cache[1].index[k]
        /\ heatmap = <<[x |-> cache[1].columns, y |-> cache[1].index, z |-> cache[1].values]>>
        /\ IsKeptSubsequence(links_filtered, toEdges(cache[1]), min_connection_strength[1])

\* From one chart run to the next nothing but the threshold and the
\* filtered links changes, and the same threshold gives the same links.
ChartFrame ==
    (view = "chart" /\ view' = "chart") =>
        /\ cache' = cache
        /\ data_matrix' = data_matrix
        /\ nodes_df' = nodes_df
        /\ links' = links
        /\ heatmap' = heatmap
        /\ (min_connection_strength' = min_connection_strength
               => links_filtered' = links_filtered)

\* C9: after a successful load, across slider changes, the Matrix, the Nodes
\* and the heatmap data stay what was loaded, and the rendered edge list is
\* filterEdges(toEdges(Matrix), current Threshold), whatever the thresholds
\* before were.
C9_EdgesFromMatrixAndThreshold == []ChartFromStoredMatrix /\ [][ChartFrame]_vars

\* The slider was lowered below its default, to a threshold that keeps some
\* links and drops others.
C9_Witness ==
    /\ view = "chart"
    /\ min_connection_strength[1] = 10
    /\ Len(links_filtered) > 0
    /\ \E k \in DOMAIN links_filtered : links_filtered[k].value = 10
    /\ \E k \in DOMAIN links_filtered : links_filtered[k].value = 60

\* C2: a missing file is answered with the not-found error and a file that
\* is not a square numeric matrix with matching labels with a parse error;
\* load never returns such a file as a Matrix.
C2_BadInputYieldsTypedError ==
    /\ (Len(cache) = 1 /\ file.kind = "missing") => cache[1].tag = "None"
    /\ (Len(cache) = 1 /\ Malformed(file)) => cache[1].tag # "df"
    /\ Malformed(file) => data_matrix.tag # "df"

\* C3: whenever load fails, the run ends in the no-chart state with a
\* message on the page, no exception leaves the script, and no slider, node
\* list, edge list, chart or heatmap is produced.
C3_FailedLoadEndsInNoChart ==
    (view # "blank" /\ data_matrix.tag # "df") =>
        /\ view = "nochart"
        /\ exception = ""
        /\ "warning" \in messages
        /\ slider_state = <<>>
        /\ min_connection_strength = <<>>
        /\ nodes_df = <<>>
        /\ links_filtered = <<>>
        /\ heatmap = <<>>

\* C4: a Matrix that load returned has no row and no column labelled
\* "general", and no Node or Edge made from it names "general".
C4_NoGeneralAfterLoad ==
    data_matrix.tag = "df" =>
        /\ "general" \notin Range(data_matrix.index)
        /\ "general" \notin Range(data_matrix.columns)
        /\ \A k \in DOMAIN nodes_df : nodes_df[k].name # "general"
        /\ \A k \in DOMAIN links :
             links[k].source_name # "general" /\ links[k].target_name # "general"

\* C5: every run on a valid loaded matrix, the first one included, filters
\* with a threshold t, 0 <= t <= max(Matrix).
C5_ThresholdInRange ==
    (view # "blank" /\ ValidMatrix(data_matrix)) =>
        /\ Len(min_connection_strength) = 1
        /\ 0 <= min_connection_strength[1]
        /\ min_connection_strength[1] <= max_value(data_matrix)

\* C10: one process reads the file at most once.
C10_FileReadAtMostOnce == reads <= 1

====
